---------------------------- MODULE Spec2Model ----------------------------
(***************************************************************************)
(* A model of the MOP -> JHA converter (src/app.py).                       *)
(*                                                                         *)
(* Text is modelled as a sequence of one-character strings, so that the    *)
(* string operations of the program (strip, upper, substring test, split,  *)
(* the prefix regular expression) are computed and not assumed.            *)
(*                                                                         *)
(* A document is a sequence of tables, a table a sequence of rows, a row a *)
(* sequence of cells, a cell a sequence of paragraphs, a paragraph a       *)
(* sequence of runs, a run a record [text, bold, highlight].               *)
(***************************************************************************)
EXTENDS Integers, Sequences, FiniteSets, TLC

VARIABLES
    \* --- get_ai_safety_analysis / clean_response applied to one reply ---
    raw,            \* the simulated outcome of one classification call
    cleans,         \* clean_response applied to the reply, then to its own result
    result,         \* what get_ai_safety_analysis returned for `raw`: <<>> or <<pair>>
    \* --- the conversion run (the script body of app.py) ---
    pc,             \* position of the script
    template_exists,\* os.path.exists(TEMPLATE_FILENAME)
    api_key,        \* a credential was entered
    mop_file,       \* a file was uploaded
    load_ok,        \* Document(...) of both files succeeds
    mop_upload,     \* the tables of the uploaded file
    template_file,  \* the tables of Template.docx on disk
    mop_doc,        \* the source document tree in memory, <<>> before it is loaded
    jha_doc,        \* the template document tree in memory, <<>> before it is loaded
    t_idx,          \* index of the table the header scan is at (1-based)
    scanned,        \* the table indices the header scan has visited
    target_col,     \* column of the located header, -1 when none (0-based as in the code)
    header_row,     \* row of the located header, -1 when none (0-based as in the code)
    found_table,    \* 1-based index of the table the header was found in, 0 when none
    steps_data,     \* the retained steps: sequence of [plain, segments]
    target_table,   \* 1-based index in jha_doc of the destination table, 0 when None
    i,              \* loop index of the AI analysis loop (0-based as in the code)
    inflight,       \* step indices whose classification call is outstanding
    calls,          \* step texts sent to the classifier, in order of issue
    outcomes,       \* the outcomes of the classification calls, in order of return
    analysis,       \* (haz, ctrl) returned for the current step: <<>> or <<pair>>
    download        \* the download button with the serialized document is offered

parseVars == <<raw, cleans, result>>
envVars == <<template_exists, api_key, mop_file, load_ok, mop_upload, template_file>>
docVars == <<mop_doc, jha_doc>>
scanVars == <<t_idx, scanned, target_col, header_row, found_table, steps_data>>
loopVars == <<target_table, i, inflight, calls, outcomes, analysis, download>>
vars == <<parseVars, pc, envVars, docVars, scanVars, loopVars>>

(***************************************************************************)
(* Bounds of the model.                                                    *)
(***************************************************************************)
MaxPieces == 4      \* a simulated raw reply is made of at most this many pieces
MaxTables == 2      \* tables of a header-scan document
MaxRows == 7        \* rows of a table of a header-scan document
MaxParas == 2       \* paragraphs of the varied cell of a step-filter document
MaxDataRows == 2    \* rows below the header of a step-filter document
MaxSteps == 3       \* steps of a source document of a conversion run
MaxOldRows == 2     \* data rows the template's destination table holds on disk

(***************************************************************************)
(* Text                                                                    *)
(***************************************************************************)
LowerLetters == <<"a", "b", "c", "d", "e", "f", "g", "h", "i", "j", "k", "l", "m",
                  "n", "o", "p", "q", "r", "s", "t", "u", "v", "w", "x", "y", "z">>
UpperLetters == <<"A", "B", "C", "D", "E", "F", "G", "H", "I", "J", "K", "L", "M",
                  "N", "O", "P", "Q", "R", "S", "T", "U", "V", "W", "X", "Y", "Z">>
Digits == {"0", "1", "2", "3", "4", "5", "6", "7", "8", "9"}
Whitespace == {" ", "\n", "\t"}

\* str.upper() on one character
UpperChar(c) ==
    IF \E k \in 1..26 : LowerLetters[k] = c
    THEN UpperLetters[CHOOSE k \in 1..26 : LowerLetters[k] = c]
    ELSE c

\* str.upper()
Upper(s) == [k \in 1..Len(s) |-> UpperChar(s[k])]

\* s[n:] for 0 <= n
Drop(s, n) == IF n >= Len(s) THEN <<>> ELSE SubSeq(s, n + 1, Len(s))

\* s[:n] for 0 <= n
Take(s, n) == IF n >= Len(s) THEN s ELSE SubSeq(s, 1, n)

\* number of leading characters of s that are in set
RECURSIVE LeadingRun(_, _)
LeadingRun(s, set) ==
    IF s = <<>> \/ s[1] \notin set THEN 0 ELSE 1 + LeadingRun(Tail(s), set)

\* number of trailing characters of s that are in set
RECURSIVE TrailingRun(_, _)
TrailingRun(s, set) ==
    IF s = <<>> \/ s[Len(s)] \notin set THEN 0
    ELSE 1 + TrailingRun(SubSeq(s, 1, Len(s) - 1), set)

\* str.strip()
Strip(s) ==
    LET l == Drop(s, LeadingRun(s, Whitespace))
    IN  Take(l, Len(l) - TrailingRun(l, Whitespace))

\* s.startswith(p)
StartsWith(s, p) == Len(s) >= Len(p) /\ SubSeq(s, 1, Len(p)) = p

\* `sub in s`
Contains(s, sub) ==
    \E k \in 0..(Len(s) - Len(sub)) : SubSeq(s, k + 1, k + Len(sub)) = sub

\* s.replace(ch, '') for a one-character ch
RECURSIVE RemoveChar(_, _)
RemoveChar(s, ch) ==
    IF s = <<>> THEN <<>>
    ELSE (IF s[1] = ch THEN <<>> ELSE <<s[1]>>) \o RemoveChar(Tail(s), ch)

\* "".join(parts)
RECURSIVE Concat(_)
Concat(parts) == IF parts = <<>> THEN <<>> ELSE Head(parts) \o Concat(Tail(parts))

\* sep.join(parts) for a one-character sep
RECURSIVE Join(_, _)
Join(parts, sep) ==
    IF parts = <<>> THEN <<>>
    ELSE IF Len(parts) = 1 THEN parts[1]
    ELSE parts[1] \o <<sep>> \o Join(Tail(parts), sep)

\* index of the first ch in s, 0 when there is none
FirstIndex(s, ch) ==
    IF \E k \in 1..Len(s) : s[k] = ch
    THEN CHOOSE k \in 1..Len(s) : s[k] = ch /\ \A m \in 1..(k - 1) : s[m] # ch
    ELSE 0

\* s.split(ch): every ch separates two parts
RECURSIVE Split(_, _)
Split(s, ch) ==
    LET k == FirstIndex(s, ch)
    IN  IF k = 0 THEN <<s>>
        ELSE <<Take(s, k - 1)>> \o Split(Drop(s, k), ch)

(***************************************************************************)
(* Literals of the program                                                 *)
(***************************************************************************)
MANUAL_REVIEW == <<"M", "a", "n", "u", "a", "l", " ", "R", "e", "v", "i", "e", "w", " ",
                   "R", "e", "q", "u", "i", "r", "e", "d">>
NA == <<"N", "/", "A">>
PIPE == "|"

\* the alternatives of the prefix pattern, in the order the pattern lists them
KW_OUTPUT == <<"o", "u", "t", "p", "u", "t">>
KW_RESPONSE == <<"r", "e", "s", "p", "o", "n", "s", "e">>
KW_ANSWER == <<"a", "n", "s", "w", "e", "r">>
KW_STEP == <<"s", "t", "e", "p", " ">>
KW_ANALYSIS == <<"a", "n", "a", "l", "y", "s", "i", "s">>
PrefixSeparators == {":", "-"} \cup Whitespace

(***************************************************************************)
(* clean_response                                                          *)
(***************************************************************************)
\* s starts with keyword kw, letter case ignored (re.IGNORECASE)
StartsWithCI(s, kw) == StartsWith(Upper(s), Upper(kw))

\* Length of the match of (output|response|answer|step \d+|analysis) at the
\* start of s, -1 when the group does not match there.
KeywordMatchLen(s) ==
    IF StartsWithCI(s, KW_OUTPUT) THEN Len(KW_OUTPUT)
    ELSE IF StartsWithCI(s, KW_RESPONSE) THEN Len(KW_RESPONSE)
    ELSE IF StartsWithCI(s, KW_ANSWER) THEN Len(KW_ANSWER)
    ELSE IF StartsWithCI(s, KW_STEP) /\ LeadingRun(Drop(s, Len(KW_STEP)), Digits) >= 1
         THEN Len(KW_STEP) + LeadingRun(Drop(s, Len(KW_STEP)), Digits)
    ELSE IF StartsWithCI(s, KW_ANALYSIS) THEN Len(KW_ANALYSIS)
    ELSE -1

\* re.sub(r'^(output|response|answer|step \d+|analysis)[:\s-]*', '', text, flags=re.IGNORECASE)
\* ^ matches at the start of the text only, so at most one match is removed.
StripPrefix(text) ==
    LET n == KeywordMatchLen(text)
    IN  IF n < 0 THEN text
        ELSE LET rest == Drop(text, n)
             IN  Drop(rest, LeadingRun(rest, PrefixSeparators))

clean_response(text) ==
    Strip(RemoveChar(RemoveChar(StripPrefix(text), "\""), "'"))

(***************************************************************************)
(* get_ai_safety_analysis                                                  *)
(***************************************************************************)
\* The outcome of client.chat.completions.create and of reading the reply:
\*   "raise"  the call raises (network, auth, quota, ...),
\*   "none"   the reply carries no content (content is None, so .strip() raises),
\*   "text"   the reply carries the text `content`.
Raises(outcome) == outcome.kind \in {"raise", "none"}

Pair(h, c) == [haz |-> h, ctrl |-> c]

\* lines 59-65: the reply was received
ParseReply(content) ==
    LET raw_content == Strip(content)
        cleaned_content == clean_response(raw_content)
    IN  IF \E k \in 1..Len(cleaned_content) : cleaned_content[k] = PIPE
        THEN LET parts == Split(cleaned_content, PIPE)
             IN  Pair(Strip(parts[1]), Strip(parts[2]))
        ELSE Pair(NA, NA)

OnExceptionNA == Pair(NA, NA)

\* lines 67-69: except Exception
OnException == Pair(MANUAL_REVIEW, MANUAL_REVIEW)

get_ai_safety_analysis(outcome) ==
    IF Raises(outcome) THEN OnException ELSE ParseReply(outcome.content)

(***************************************************************************)
(* Document tree                                                           *)
(***************************************************************************)
Run(text, bold, highlight) == [text |-> text, bold |-> bold, highlight |-> highlight]
PlainRun(text) == Run(text, "None", "None")
TextCell(text) == << <<PlainRun(text)>> >>

\* paragraph.text: the texts of the paragraph's runs, concatenated
ParagraphText(p) == Concat([k \in 1..Len(p) |-> p[k].text])

\* cell.text: the texts of the cell's paragraphs, joined by line breaks
CellText(cell) == Join([k \in 1..Len(cell) |-> ParagraphText(cell[k])], "\n")

(***************************************************************************)
(* extract_rich_text                                                       *)
(***************************************************************************)
\* all runs of the cell, paragraph by paragraph
CellRuns(cell) == Concat(cell)

\* lines 76-85: the runs with a non-empty text, in document order
RECURSIVE SkipEmpty(_)
SkipEmpty(runs) ==
    IF runs = <<>> THEN <<>>
    ELSE (IF runs[1].text = <<>> THEN <<>> ELSE <<runs[1]>>) \o SkipEmpty(Tail(runs))

NonEmptyRuns(cell) == SkipEmpty(CellRuns(cell))

extract_rich_text(cell) ==
    LET runs == NonEmptyRuns(cell)
    IN  [plain |-> Strip(Concat([k \in 1..Len(runs) |-> runs[k].text])),
         segments |-> runs]

(***************************************************************************)
(* Deep scan for the header (lines 150-163)                                *)
(***************************************************************************)
TOKEN_DESCRIPTION == <<"D", "E", "S", "C", "R", "I", "P", "T", "I", "O", "N">>
TOKEN_OPERATION == <<"O", "P", "E", "R", "A", "T", "I", "O", "N">>
TOKEN_DO_NOT_DELETE == <<"D", "O", " ", "N", "O", "T", " ", "D", "E", "L", "E", "T", "E">>
TOKEN_JE_DUNN == <<"J", "E", " ", "D", "U", "N", "N">>
SCAN_ROWS == 6

\* lines 157-158
IsHeaderCell(cell) ==
    LET clean_txt == Upper(Strip(CellText(cell)))
    IN  Contains(clean_txt, TOKEN_DESCRIPTION) /\ Contains(clean_txt, TOKEN_OPERATION)

HeaderRowsAll(table) == table

\* table.rows[:6]
HeaderRows(table) == Take(table, SCAN_ROWS)

\* line 156-162: 0-based index of the first header cell of the row, -1 when none
RECURSIVE ScanCells(_, _)
ScanCells(row, c_idx) ==
    IF c_idx >= Len(row) THEN -1
    ELSE IF IsHeaderCell(row[c_idx + 1]) THEN c_idx
    ELSE ScanCells(row, c_idx + 1)

\* lines 155-163: the rows in order, stopping at the first row with a header cell
RECURSIVE ScanRows(_, _)
ScanRows(rows, r_idx) ==
    IF r_idx >= Len(rows) THEN [target_col |-> -1, header_row |-> -1]
    ELSE LET c == ScanCells(rows[r_idx + 1], 0)
         IN  IF c # -1 THEN [target_col |-> c, header_row |-> r_idx]
             ELSE ScanRows(rows, r_idx + 1)

ScanTableHeader(table) == ScanRows(HeaderRows(table), 0)

(***************************************************************************)
(* Step filter (lines 165-176)                                             *)
(***************************************************************************)
IsStepTextCaseSensitive(txt_check) ==
    /\ Len(txt_check) > 3
    /\ ~Contains(txt_check, TOKEN_DESCRIPTION)
    /\ ~Contains(txt_check, TOKEN_DO_NOT_DELETE)
    /\ ~Contains(txt_check, TOKEN_JE_DUNN)

\* lines 171-174
IsStepText(txt_check) ==
    /\ Len(txt_check) > 3
    /\ ~Contains(Upper(txt_check), TOKEN_DESCRIPTION)
    /\ ~Contains(Upper(txt_check), TOKEN_DO_NOT_DELETE)
    /\ ~Contains(Upper(txt_check), TOKEN_JE_DUNN)

\* table.rows[header_row + 1:]
RowsAfterHeader(table, hdr) == Drop(table, hdr + 1)

\* lines 166-176 over `rows`
RECURSIVE FilterRows(_, _)
FilterRows(rows, col) ==
    IF rows = <<>> THEN <<>>
    ELSE LET row == Head(rows)
             keep == /\ Len(row) > col
                     /\ IsStepText(Strip(CellText(row[col + 1])))
         IN  (IF keep THEN <<extract_rich_text(row[col + 1])>> ELSE <<>>)
                 \o FilterRows(Tail(rows), col)

ExtractSteps(table, hdr, col) == FilterRows(RowsAfterHeader(table, hdr), col)

(***************************************************************************)
(* Simulated replies: every concatenation of at most MaxPieces pieces, and *)
(* the reply the prompt gives as its example.                              *)
(***************************************************************************)
Pieces ==
    { <<"O", "u", "t", "p", "u", "t">>,
      <<"s", "t", "e", "p", " ", "2">>,
      <<":">>, <<" ">>, <<"\"">>, <<"|">>,
      <<"N", "/", "A">>,
      <<"S", "h", "o", "c", "k">> }

EXAMPLE_REPLY ==
    <<"O", "u", "t", "p", "u", "t", ":", " ", "E", "l", "e", "c", "t", "r", "i", "c",
      "a", "l", " ", "S", "h", "o", "c", "k", " ", "|", " ", "L", "O", "T", "O", " ",
      "&", " ", "V", "e", "r", "i", "f", "y", " ", "Z", "e", "r", "o", " ", "E", "n",
      "e", "r", "g", "y">>
EXAMPLE_HAZARD ==
    <<"E", "l", "e", "c", "t", "r", "i", "c", "a", "l", " ", "S", "h", "o", "c", "k">>
EXAMPLE_CONTROL ==
    <<"L", "O", "T", "O", " ", "&", " ", "V", "e", "r", "i", "f", "y", " ", "Z", "e",
      "r", "o", " ", "E", "n", "e", "r", "g", "y">>

RawResponses ==
    { Concat(ps) : ps \in UNION { [1..n -> Pieces] : n \in 0..MaxPieces } }
        \cup {EXAMPLE_REPLY}

TextOutcome(content) == [kind |-> "text", content |-> content]
RaiseOutcome == [kind |-> "raise", content |-> <<>>]
NoneOutcome == [kind |-> "none", content |-> <<>>]

ParseOutcomes == {RaiseOutcome, NoneOutcome} \cup { TextOutcome(r) : r \in RawResponses }

(***************************************************************************)
(* Template preparation (lines 187-202)                                    *)
(***************************************************************************)
MARK_SEQUENCE == <<"S", "e", "q", "u", "e", "n", "c", "e">>

\* line 189
IsTargetTable(table) ==
    table # <<>> /\ Contains(CellText(table[1][1]), MARK_SEQUENCE)

\* lines 187-191: 1-based index of the first target table from index k on, 0 when none
RECURSIVE FindTargetTable(_, _)
FindTargetTable(tables, k) ==
    IF k > Len(tables) THEN 0
    ELSE IF IsTargetTable(tables[k]) THEN k
    ELSE FindTargetTable(tables, k + 1)

\* rows without the row at 0-based index idx
RemoveRow(rows, idx) == Take(rows, idx) \o Drop(rows, idx + 1)

ClearFromSkipLast(rows) == Len(rows) - 2

\* first index of range(len(rows) - 1, 0, -1)
ClearFrom(rows) == Len(rows) - 1

\* lines 201-202: remove rows idx, idx - 1, ..., 1
RECURSIVE ClearRows(_, _)
ClearRows(rows, idx) ==
    IF idx <= 0 THEN rows ELSE ClearRows(RemoveRow(rows, idx), idx - 1)

ClearOldRows(rows) == ClearRows(rows, ClearFrom(rows))

(***************************************************************************)
(* Row building (lines 216-236)                                            *)
(***************************************************************************)
DigitChars == <<"0", "1", "2", "3", "4", "5", "6", "7", "8", "9">>

\* str(n) for n >= 0
RECURSIVE Str(_)
Str(n) ==
    IF n < 10 THEN <<DigitChars[n + 1]>>
    ELSE Str(n \div 10) \o <<DigitChars[(n % 10) + 1]>>

StepPrefixOneBased(idx) == <<"S", "t", "e", "p", " ">> \o Str(idx + 1) \o <<":">>

\* line 223: f"Step {i}:"
StepPrefix(idx) == <<"S", "t", "e", "p", " ">> \o Str(idx) \o <<":">>

\* lines 229-231
SegmentRun(seg) ==
    Run(seg.text, IF seg.bold = "True" THEN "True" ELSE "None", seg.highlight)

\* lines 219-236: the row appended for step idx
BuildRow(idx, step_obj, haz, ctrl) ==
    LET segs == step_obj.segments
        p == <<Run(StepPrefix(idx), "True", "None"), PlainRun(<<"\n">>)>>
                 \o [k \in 1..Len(segs) |-> SegmentRun(segs[k])]
    IN  << <<p>>, TextCell(haz), TextCell(ctrl) >>

(***************************************************************************)
(* Inputs of a conversion run                                              *)
(***************************************************************************)
TXT_HEADER == <<" ", "D", "e", "s", "c", "r", "i", "p", "t", "i", "o", "n", " ", "o", "f",
                " ", "W", "o", "r", "k", " ", "O", "p", "e", "r", "a", "t", "i", "o", "n",
                " ">>
TXT_DESCRIPTION == <<"D", "e", "s", "c", "r", "i", "p", "t", "i", "o", "n">>
TXT_CALL == <<"C", "a", "l", "l", " ", "c", "l", "i", "e", "n", "t">>
TXT_OPEN == <<"O", "p", "e", "n", " ">>
TXT_VALVE == <<"v", "a", "l", "v", "e">>
TXT_XX == <<"x", "x">>
TXT_SEQ_TITLE == <<"S", "e", "q", "u", "e", "n", "c", "e", " ", "o", "f", " ", "B", "a",
                   "s", "i", "c", " ", "J", "o", "b", " ", "S", "t", "e", "p", "s">>
TXT_SEQ_LOWER == <<"s", "e", "q", "u", "e", "n", "c", "e", " ", "l", "i", "s", "t">>
TXT_HAZARDS == <<"H", "a", "z", "a", "r", "d", "s">>
TXT_CONTROLS == <<"C", "o", "n", "t", "r", "o", "l", "s">>
TXT_NOTES == <<"N", "o", "t", "e", "s">>
TXT_OLD == <<"o", "l", "d">>
NA_REPLY == <<"N", "/", "A", " ", "|", " ", "N", "/", "A">>

HEADER_CELL == TextCell(TXT_HEADER)
STEP_CALL == << <<Run(TXT_CALL, "False", "None")>> >>
STEP_OPEN == << <<PlainRun(TXT_OPEN), Run(TXT_VALVE, "True", "YELLOW")>> >>
NOISE_SHORT == TextCell(TXT_XX)

\* the template: a destination table with k data rows, and tables that are not one
SEQ_HEADER_ROW == <<TextCell(TXT_SEQ_TITLE), TextCell(TXT_HAZARDS), TextCell(TXT_CONTROLS)>>
OldRow(k) == <<TextCell(TXT_OLD), TextCell(Str(k)), TextCell(TXT_OLD)>>
SeqTable(k) == <<SEQ_HEADER_ROW>> \o [j \in 1..k |-> OldRow(j)]
LowerSeqTable ==
    << <<TextCell(TXT_SEQ_LOWER), TextCell(TXT_HAZARDS), TextCell(TXT_CONTROLS)>>, OldRow(1) >>
NotesTable == << <<TextCell(TXT_NOTES)>> >>
EmptyTable == <<>>
\* no table or one table that is not a destination, then no table or the destination
LeadingTables == { <<>>, <<LowerSeqTable>>, <<NotesTable>>, <<EmptyTable>> }
DestinationTables == { <<>> } \cup { <<SeqTable(k)>> : k \in 0..MaxOldRows }
Templates == { l \o d : l \in LeadingTables, d \in DestinationTables }

\* the source: a table with the header in its second column and one data row per cell
MopTable(cells) ==
    << <<TextCell(TXT_XX), HEADER_CELL>> >>
        \o [k \in 1..Len(cells) |-> <<TextCell(Str(k)), cells[k]>>]
\* n steps, a plain one and a formatted one in turn, and a noise row after the
\* first p of them (none when p < 0)
StepCell(k) == IF k % 2 = 1 THEN STEP_CALL ELSE STEP_OPEN
DataCells(n, p) ==
    LET steps == [k \in 1..n |-> StepCell(k)]
    IN  IF p < 0 THEN steps ELSE Take(steps, p) \o <<NOISE_SHORT>> \o Drop(steps, p)
MopDocs ==
    { <<>>, << << <<STEP_CALL>> >> >> }
        \cup UNION { { <<MopTable(DataCells(n, p))>> : p \in -1..n } : n \in 0..MaxSteps }

MainOutcomes ==
    {RaiseOutcome, NoneOutcome, TextOutcome(EXAMPLE_REPLY), TextOutcome(NA_REPLY)}

(***************************************************************************)
(* The conversion run                                                      *)
(***************************************************************************)
NoParse == raw = RaiseOutcome /\ cleans = <<>> /\ result = <<>>

NotScanned ==
    /\ t_idx = 0 /\ scanned = {} /\ target_col = -1 /\ header_row = -1
    /\ found_table = 0 /\ steps_data = <<>>

NotLooped ==
    /\ target_table = 0 /\ i = 0 /\ inflight = {} /\ calls = <<>> /\ outcomes = <<>>
    /\ analysis = <<>> /\ download = FALSE

Init ==
    /\ NoParse
    /\ pc = "start"
    /\ template_exists \in BOOLEAN
    /\ api_key \in BOOLEAN
    /\ mop_file \in BOOLEAN
    /\ load_ok \in BOOLEAN
    /\ mop_upload \in MopDocs
    /\ template_file \in Templates
    /\ mop_doc = <<>> /\ jha_doc = <<>>
    /\ NotScanned
    /\ NotLooped

\* lines 119-121
CheckTemplate ==
    /\ pc = "start"
    /\ pc' = IF template_exists THEN "button" ELSE "aborted"
    /\ UNCHANGED <<parseVars, envVars, docVars, scanVars, loopVars>>

InputsValidNoKey == mop_file

\* lines 126-131
InputsValid == api_key /\ mop_file

\* lines 124-131: the button is pressed
Generate ==
    /\ pc = "button"
    /\ pc' = IF InputsValid THEN "load" ELSE "aborted"
    /\ UNCHANGED <<parseVars, envVars, docVars, scanVars, loopVars>>

\* lines 137-147
LoadDocuments ==
    /\ pc = "load"
    /\ IF load_ok
       THEN /\ mop_doc' = mop_upload
            /\ jha_doc' = template_file
            /\ t_idx' = 1
            /\ pc' = "scan"
       ELSE /\ pc' = "aborted"
            /\ UNCHANGED <<docVars, t_idx>>
    /\ UNCHANGED <<parseVars, envVars, scanned, target_col, header_row, found_table,
                   steps_data, loopVars>>

\* lines 150-177: one iteration of the loop over the tables
ScanTable ==
    /\ pc = "scan"
    /\ t_idx <= Len(mop_doc)
    /\ LET table == mop_doc[t_idx]
           h == ScanTableHeader(table)
       IN  /\ scanned' = scanned \cup {t_idx}
           /\ target_col' = h.target_col
           /\ header_row' = h.header_row
           /\ IF h.target_col # -1
              THEN /\ steps_data' = ExtractSteps(table, h.header_row, h.target_col)
                   /\ found_table' = t_idx
                   /\ pc' = "extracted"
                   /\ UNCHANGED t_idx
              ELSE /\ t_idx' = t_idx + 1
                   /\ UNCHANGED <<steps_data, found_table, pc>>
    /\ UNCHANGED <<parseVars, envVars, docVars, loopVars>>

\* the loop over the tables ends without a break
ScanEnd ==
    /\ pc = "scan"
    /\ t_idx > Len(mop_doc)
    /\ pc' = "extracted"
    /\ UNCHANGED <<parseVars, envVars, docVars, scanVars, loopVars>>

\* lines 179-184
CheckSteps ==
    /\ pc = "extracted"
    /\ pc' = IF steps_data = <<>> THEN "aborted" ELSE "template"
    /\ UNCHANGED <<parseVars, envVars, docVars, scanVars, loopVars>>

\* lines 187-206
PrepareTemplate ==
    /\ pc = "template"
    /\ LET tt == FindTargetTable(jha_doc, 1)
       IN  IF tt = 0
           THEN /\ pc' = "aborted"
                /\ UNCHANGED <<jha_doc, target_table>>
           ELSE /\ target_table' = tt
                /\ jha_doc' = [jha_doc EXCEPT ![tt] = ClearOldRows(@)]
                /\ pc' = "loop"
    /\ UNCHANGED <<parseVars, envVars, mop_doc, scanVars, i, inflight, calls, outcomes,
                   analysis, download>>

\* lines 208-213, 49: the classification call for step i is sent
IssueCall ==
    /\ pc = "loop"
    /\ i < Len(steps_data)
    /\ calls' = Append(calls, steps_data[i + 1].plain)
    /\ inflight' = inflight \cup {i}
    /\ pc' = "calling"
    /\ UNCHANGED <<parseVars, envVars, docVars, scanVars, target_table, i, outcomes,
                   analysis, download>>

\* lines 49-69, 213: the call returns or raises
CallReturns ==
    /\ pc = "calling"
    /\ \E outcome \in MainOutcomes :
          /\ outcomes' = Append(outcomes, outcome)
          /\ analysis' = <<get_ai_safety_analysis(outcome)>>
    /\ inflight' = inflight \ {i}
    /\ pc' = "addrow"
    /\ UNCHANGED <<parseVars, envVars, docVars, scanVars, target_table, i, calls, download>>

\* lines 216-243
AddRow ==
    /\ pc = "addrow"
    /\ jha_doc' = [jha_doc EXCEPT ![target_table] =
                      Append(@, BuildRow(i, steps_data[i + 1], analysis[1].haz,
                                         analysis[1].ctrl))]
    /\ i' = i + 1
    /\ analysis' = <<>>
    /\ pc' = "loop"
    /\ UNCHANGED <<parseVars, envVars, mop_doc, scanVars, target_table, inflight, calls,
                   outcomes, download>>

\* lines 245-250: the loop is exhausted, the document is saved to the buffer
Serialize ==
    /\ pc = "loop"
    /\ i >= Len(steps_data)
    /\ pc' = "serialized"
    /\ UNCHANGED <<parseVars, envVars, docVars, scanVars, loopVars>>

\* lines 252-258
OfferDownload ==
    /\ pc = "serialized"
    /\ download' = TRUE
    /\ pc' = "done"
    /\ UNCHANGED <<parseVars, envVars, docVars, scanVars, target_table, i, inflight, calls,
                   outcomes, analysis>>

Next ==
    \/ CheckTemplate
    \/ Generate
    \/ LoadDocuments
    \/ ScanTable
    \/ ScanEnd
    \/ CheckSteps
    \/ PrepareTemplate
    \/ IssueCall
    \/ CallReturns
    \/ AddRow
    \/ Serialize
    \/ OfferDownload

Spec == Init /\ [][Next]_vars

(***************************************************************************)
(* SpecExtract: the header scan and the step filter on loaded documents.   *)
(*                                                                         *)
(* Header-scan documents: up to MaxTables tables of the same number of     *)
(* rows, every row two cells wide; up to two cells, anywhere, hold a       *)
(* header text, the others a text that holds at most one of the tokens.    *)
(*                                                                         *)
(* Step-filter documents: one table with the header in column hc, and      *)
(* below it up to MaxDataRows rows, each of them one or two cells wide,    *)
(* whose candidate cell is a formatted step or a varied cell of up to      *)
(* MaxParas paragraphs.                                                    *)
(***************************************************************************)
TXT_HEADER2 == <<"O", "P", "E", "R", "A", "T", "I", "O", "N", " ", "d", "e", "s", "c", "r",
                 "i", "p", "t", "i", "o", "n">>
TXT_AB == <<"a", "b">>
TXT_C == <<"c">>
TXT_DO_NOT == <<" ", "D", "o", " ", "N", "o", "t">>
TXT_DELETE == <<" ", "D", "e", "l", "e", "t", "e", " ">>
TXT_JE == <<"J", "e", " ">>
TXT_DUNN == <<"D", "u", "n", "n">>

NoPos == <<0, 0, 0>>
LocateCols == {1, 2}
Positions(nT, nR) == (1..nT) \X (1..nR) \X LocateCols

FillerCell(r, c) == IF (r + c) % 2 = 0 THEN TextCell(TXT_DESCRIPTION) ELSE TextCell(TXT_CALL)

LocateDoc(nT, nR, a, b) ==
    [t \in 1..nT |-> [r \in 1..nR |-> [c \in LocateCols |->
        IF <<t, r, c>> = a THEN TextCell(TXT_HEADER)
        ELSE IF <<t, r, c>> = b THEN TextCell(TXT_HEADER2)
        ELSE FillerCell(r, c)]]]

UploadLocateDoc ==
    \E nT \in 0..MaxTables, nR \in 0..MaxRows :
        \E a \in Positions(nT, nR) \cup {NoPos}, b \in Positions(nT, nR) \cup {NoPos} :
            mop_upload = LocateDoc(nT, nR, a, b)

ParaPool ==
    { <<>>,
      <<PlainRun(TXT_AB)>>,
      <<PlainRun(TXT_C), PlainRun(<<>>)>>,
      <<PlainRun(TXT_DO_NOT)>>,
      <<PlainRun(TXT_DELETE)>>,
      <<PlainRun(TXT_JE), Run(TXT_DUNN, "True", "None")>> }
VariedCells == UNION { [1..n -> ParaPool] : n \in 1..MaxParas }

RowKinds == {"step", "varied"} \X BOOLEAN
DataRowKinds == UNION { [1..n -> RowKinds] : n \in 0..MaxDataRows }

CandidateCell(kind, v) == IF kind = "step" THEN STEP_OPEN ELSE v

\* a data row: the candidate cell alone (short), or in column hc of two cells
DataRow(kind, short, hc, v) ==
    IF short THEN <<CandidateCell(kind, v)>>
    ELSE IF hc = 0 THEN <<CandidateCell(kind, v), TextCell(TXT_XX)>>
    ELSE <<TextCell(TXT_XX), CandidateCell(kind, v)>>

HeaderRow(hc) ==
    IF hc = 0 THEN <<HEADER_CELL, TextCell(TXT_XX)>> ELSE <<TextCell(TXT_XX), HEADER_CELL>>

\* hc rows above the header, the header row, the data rows
FilterDoc(hc, v, kinds) ==
    << [r \in 1..hc |-> <<TextCell(TXT_CALL), TextCell(TXT_CALL)>>]
           \o <<HeaderRow(hc)>>
           \o [k \in 1..Len(kinds) |-> DataRow(kinds[k][1], kinds[k][2], hc, v)] >>

UploadFilterDoc ==
    \E hc \in {0, 1}, v \in VariedCells, kinds \in DataRowKinds :
        mop_upload = FilterDoc(hc, v, kinds)

InitExtract ==
    /\ NoParse
    /\ pc = "scan"
    /\ template_exists = TRUE /\ api_key = TRUE /\ mop_file = TRUE /\ load_ok = TRUE
    /\ (UploadLocateDoc \/ UploadFilterDoc)
    /\ template_file = <<SeqTable(0)>>
    /\ mop_doc = mop_upload
    /\ jha_doc = template_file
    /\ t_idx = 1 /\ scanned = {} /\ target_col = -1 /\ header_row = -1
    /\ found_table = 0 /\ steps_data = <<>>
    /\ NotLooped

NextExtract == ScanTable \/ ScanEnd

SpecExtract == InitExtract /\ [][NextExtract]_vars

(***************************************************************************)
(* SpecParse: get_ai_safety_analysis and clean_response on one outcome.    *)
(***************************************************************************)
Idle ==
    /\ pc = "idle"
    /\ template_exists = FALSE /\ api_key = FALSE /\ mop_file = FALSE /\ load_ok = FALSE
    /\ mop_upload = <<>> /\ template_file = <<>>
    /\ mop_doc = <<>> /\ jha_doc = <<>>
    /\ NotScanned
    /\ NotLooped

InitParse ==
    /\ raw \in ParseOutcomes
    /\ cleans = <<>>
    /\ result = <<>>
    /\ Idle

\* one call of get_ai_safety_analysis
Analyse ==
    /\ result = <<>>
    /\ result' = <<get_ai_safety_analysis(raw)>>
    /\ UNCHANGED <<raw, cleans, pc, envVars, docVars, scanVars, loopVars>>

\* lines 59-60: clean_response applied to the trimmed reply, then to what it returned
Clean ==
    /\ raw.kind = "text"
    /\ Len(cleans) < 2
    /\ cleans' = Append(cleans, clean_response(IF cleans = <<>> THEN Strip(raw.content)
                                                ELSE cleans[Len(cleans)]))
    /\ UNCHANGED <<raw, result, pc, envVars, docVars, scanVars, loopVars>>

NextParse == Analyse \/ Clean

SpecParse == InitParse /\ [][NextParse]_vars

(***************************************************************************)
(* What the claims speak of, stated on the inputs and on the output        *)
(* document.                                                               *)
(***************************************************************************)
NOISE_TOKENS == {TOKEN_DESCRIPTION, TOKEN_DO_NOT_DELETE, TOKEN_JE_DUNN}
FALLBACK == <<"M", "a", "n", "u", "a", "l", " ", "R", "e", "v", "i", "e", "w", " ",
              "R", "e", "q", "u", "i", "r", "e", "d">>
NOT_APPLICABLE == <<"N", "/", "A">>

\* the upper-cased trimmed text of the cell holds both header tokens
HoldsBothTokens(cell) ==
    LET txt == Upper(Strip(CellText(cell)))
    IN  Contains(txt, TOKEN_DESCRIPTION) /\ Contains(txt, TOKEN_OPERATION)

\* the header cells among the first six rows of each table: <<table, row, column>>,
\* the table counted from 1, row and column from 0
HeaderMatches(doc) ==
    { m \in UNION { UNION { { <<t, r, c>> : c \in 0..(Len(doc[t][r + 1]) - 1) } :
                            r \in 0..(Len(doc[t]) - 1) } :
                    t \in 1..Len(doc) } :
        m[2] < 6 /\ HoldsBothTokens(doc[m[1]][m[2] + 1][m[3] + 1]) }

Before(m, n) ==
    \/ m[1] < n[1]
    \/ m[1] = n[1] /\ m[2] < n[2]
    \/ m[1] = n[1] /\ m[2] = n[2] /\ m[3] < n[3]

\* the first of a non-empty set of header cells
FirstMatch(M) == CHOOSE m \in M : \A n \in M : n = m \/ Before(m, n)

\* a trimmed text the filter is to keep
KeptText(txt) ==
    Len(txt) > 3 /\ \A tok \in NOISE_TOKENS : ~Contains(Upper(txt), tok)

\* the 1-based indices of the rows of `table` that are to be retained
RetainedRows(table, hdr, col) ==
    { r \in (hdr + 2)..Len(table) :
        Len(table[r]) > col /\ KeptText(Strip(CellText(table[r][col + 1]))) }

NthOf(R, k) == CHOOSE r \in R : Cardinality({ q \in R : q < r }) = k - 1

\* the steps a source document is to yield
SourceSteps(doc) ==
    LET M == HeaderMatches(doc)
    IN  IF M = {} THEN {}
        ELSE LET m == FirstMatch(M) IN RetainedRows(doc[m[1]], m[2], m[3])

HasDestination(tables) ==
    \E k \in 1..Len(tables) :
        tables[k] # <<>> /\ Contains(CellText(tables[k][1][1]), MARK_SEQUENCE)

\* per uploaded document: it has no header cell, or no row to retain
SourceFails ==
    [doc \in MopDocs |-> HeaderMatches(doc) = {} \/ SourceSteps(doc) = {}]

\* per template: it has no destination table
TemplateFails == [tables \in Templates |-> ~HasDestination(tables)]

PreconditionFailure ==
    \/ ~template_exists
    \/ ~api_key
    \/ ~mop_file
    \/ ~load_ok
    \/ SourceFails[mop_upload]
    \/ TemplateFails[template_file]

LoopStarted == pc \in {"loop", "calling", "addrow", "serialized", "done"}

\* the rows of the destination table once it is located
DestinationRows == IF target_table = 0 THEN <<>> ELSE jha_doc[target_table]
NewRows == Drop(DestinationRows, 1)

RowPair(row) == Pair(CellText(row[2]), CellText(row[3]))

\* the steps the run has still to take once the loop has started
Remaining ==
    3 * (Len(steps_data) - i)
        + (IF pc = "loop" THEN 2 ELSE IF pc = "calling" THEN 1
           ELSE IF pc = "addrow" THEN 0 ELSE IF pc = "serialized" THEN -2 ELSE -3)

\* the rows built so far, and the end of the loop
RowsAndEnd ==
    /\ \A j \in 1..Len(NewRows) :
          IF Raises(outcomes[j])
          THEN RowPair(NewRows[j]) = Pair(FALLBACK, FALLBACK)
          ELSE /\ RowPair(NewRows[j]) = ParseReply(outcomes[j].content)
               /\ RowPair(NewRows[j]) # Pair(FALLBACK, FALLBACK)
    /\ (calls # <<>> \/ target_table # 0) => LoopStarted
    /\ pc \in {"serialized", "done"} =>
          /\ Len(calls) = Len(steps_data)
          /\ Len(outcomes) = Len(steps_data)
          /\ Len(NewRows) = Len(steps_data)

(***************************************************************************)
(* C1: a classification call that raises gives that step, and only that    *)
(* step, the pair ("Manual Review Required", "Manual Review Required");    *)
(* once the loop has started the run is never aborted: every step it takes *)
(* stays in the loop or ends it and brings the end nearer, and at the end  *)
(* every step was classified and has its own row.                          *)
(***************************************************************************)
C1_FailureIsLocal ==
    /\ []RowsAndEnd
    /\ [][LoopStarted => (LoopStarted' /\ Remaining' < Remaining)]_vars

C1_Witness ==
    /\ pc = "done"
    /\ Len(outcomes) >= 3
    /\ outcomes[1] = RaiseOutcome
    /\ outcomes[2] = TextOutcome(EXAMPLE_REPLY)
    /\ outcomes[3] = NoneOutcome
    /\ RowPair(NewRows[1]) = Pair(FALLBACK, FALLBACK)
    /\ RowPair(NewRows[2]) = Pair(EXAMPLE_HAZARD, EXAMPLE_CONTROL)
    /\ RowPair(NewRows[3]) = Pair(FALLBACK, FALLBACK)

(***************************************************************************)
(* C2: after the build loop the destination table has 1 + (number of       *)
(* retained steps) rows: its header row as it is in the template, and none *)
(* of the rows the template had below it.                                  *)
(***************************************************************************)
C2_RowCount ==
    pc \in {"serialized", "done"} =>
        LET before == template_file[target_table]
        IN  /\ Len(DestinationRows) = 1 + Len(steps_data)
            /\ DestinationRows[1] = before[1]
            /\ \A k \in 2..Len(DestinationRows) :
                  \A b \in 2..Len(before) : DestinationRows[k] # before[b]

C2_Witness ==
    /\ pc = "done"
    /\ Len(template_file[target_table]) >= 3
    /\ Len(steps_data) >= 2
    /\ Len(DestinationRows) = 1 + Len(steps_data)

(***************************************************************************)
(* C3: with any precondition failing (credential, upload, template file,   *)
(* document load, header column, retained steps, destination table) the    *)
(* run gets no further than the check of that precondition, where it is    *)
(* aborted: no classification call is ever issued, the loop is never       *)
(* entered and nothing is offered for download; an aborted run has issued  *)
(* no call and offers no download.                                         *)
(***************************************************************************)
C3_AbortBeforeAnyCall ==
    /\ PreconditionFailure =>
          /\ calls = <<>> /\ inflight = {} /\ outcomes = <<>>
          /\ ~LoopStarted
          /\ ~download
    /\ ~template_exists => pc \in {"start", "aborted"}
    /\ (~api_key \/ ~mop_file) => pc \in {"start", "button", "aborted"}
    /\ ~load_ok => pc \in {"start", "button", "load", "aborted"}
    /\ SourceFails[mop_upload] =>
          pc \in {"start", "button", "load", "scan", "extracted", "aborted"}
    /\ TemplateFails[template_file] =>
          pc \in {"start", "button", "load", "scan", "extracted", "template", "aborted"}
    /\ pc = "aborted" => (calls = <<>> /\ ~download /\ PreconditionFailure)

C3_Witness ==
    /\ pc = "aborted"
    /\ template_exists /\ api_key /\ mop_file /\ load_ok
    /\ steps_data # <<>>
    /\ TemplateFails[template_file]
    /\ calls = <<>>

C8_RetainedSteps ==
    (pc = "extracted" /\ found_table # 0) =>
        LET table == mop_doc[found_table]
            R == RetainedRows(table, header_row, target_col)
        IN  /\ Len(steps_data) = Cardinality(R)
            /\ \A k \in 1..Len(steps_data) :
                  steps_data[k] = extract_rich_text(table[NthOf(R, k)][target_col + 1])

C8_Witness ==
    /\ pc = "extracted"
    /\ found_table # 0
    /\ Len(steps_data) = 1
    /\ \E r \in (header_row + 2)..Len(mop_doc[found_table]) :
          LET row == mop_doc[found_table][r]
          IN  /\ Len(row) > target_col
              /\ Contains(Upper(CellText(row[target_col + 1])), TOKEN_JE_DUNN)
              /\ ~Contains(CellText(row[target_col + 1]), TOKEN_JE_DUNN)

\* the row appended for step j (from 0) is the row of that step
RowOfStep(j) ==
    LET row == NewRows[j + 1]
        p == row[1][1]
        segs == steps_data[j + 1].segments
        own == get_ai_safety_analysis(outcomes[j + 1])
    IN  /\ Len(row) = 3
        /\ Len(row[1]) = 1
        /\ Len(p) = 2 + Len(segs)
        /\ p[1].text = <<"S", "t", "e", "p", " ">> \o Str(j) \o <<":">>
        /\ p[1].bold = "True"
        /\ p[2].text = <<"\n">>
        /\ \A k \in 1..Len(segs) :
              /\ p[2 + k].text = segs[k].text
              /\ p[2 + k].bold = "True" <=> segs[k].bold = "True"
              /\ p[2 + k].highlight = segs[k].highlight
        /\ CellText(row[2]) = own.haz
        /\ CellText(row[3]) = own.ctrl

(***************************************************************************)
(* C9: the steps are classified and built one at a time in source order:   *)
(* at most one call is outstanding, the j-th call carries the j-th step's  *)
(* text and is issued only when the rows of all earlier steps are          *)
(* appended, and the row of step j (from 0) holds the bold run "Step j:",  *)
(* a line break, the step's segments, and the step's own hazard and        *)
(* control in columns 2 and 3.                                             *)
(***************************************************************************)
C9_StrictlySequential ==
    /\ Cardinality(inflight) <= 1
    /\ \A j \in 1..Len(calls) : calls[j] = steps_data[j].plain
    /\ Len(calls) <= Len(steps_data)
    /\ IF inflight = {}
       THEN Len(calls) = Len(NewRows) \/ (pc = "addrow" /\ Len(calls) = Len(NewRows) + 1)
       ELSE inflight = {Len(calls) - 1} /\ Len(NewRows) = Len(calls) - 1
    /\ Len(outcomes) <= Len(calls)
    /\ \A j \in 0..(Len(NewRows) - 1) : RowOfStep(j)

C9_Witness ==
    /\ pc = "calling"
    /\ inflight = {2}
    /\ Len(NewRows) = 2
    /\ steps_data[1] # steps_data[2]
    /\ outcomes[1] # outcomes[2]

(***************************************************************************)
(* C4: when the cleaned reply holds a pipe, the hazard is the trimmed text *)
(* before the first pipe and the control the trimmed text of everything    *)
(* after the first pipe.                                                   *)
(***************************************************************************)
C4_SplitOnFirstPipe ==
    (result # <<>> /\ raw.kind = "text") =>
        LET cleaned == clean_response(Strip(raw.content))
            k == FirstIndex(cleaned, "|")
        IN  k # 0 => result[1] = Pair(Strip(Take(cleaned, k - 1)), Strip(Drop(cleaned, k)))

(***************************************************************************)
(* C5: every result is set as a pair: both fields "N/A", or both "Manual   *)
(* Review Required", or both non-empty descriptions.                       *)
(***************************************************************************)
C5_SetAsPair ==
    result # <<>> =>
        LET haz == result[1].haz
            ctrl == result[1].ctrl
        IN  \/ haz = NOT_APPLICABLE /\ ctrl = NOT_APPLICABLE
            \/ haz = FALLBACK /\ ctrl = FALLBACK
            \/ /\ haz # <<>> /\ ctrl # <<>>
               /\ haz \notin {NOT_APPLICABLE, FALLBACK}
               /\ ctrl \notin {NOT_APPLICABLE, FALLBACK}

(***************************************************************************)
(* C6: cleaning is idempotent: cleaning a cleaned reply leaves it as it is. *)
(***************************************************************************)
C6_CleanIdempotent == Len(cleans) = 2 => cleans[2] = cleans[1]

(***************************************************************************)
(* C10: the plain text of every retained step, which is what the           *)
(* classifier is sent, itself passes the filter: longer than 3 characters, *)
(* no noise token when upper-cased.                                        *)
(***************************************************************************)
C10_PlainPassesFilter ==
    \A k \in 1..Len(steps_data) : KeptText(steps_data[k].plain)

=============================================================================
